---- MODULE Spec2Model ----
(***************************************************************************)
(* Dataset conversion of the AIoD metadata catalogue.                      *)
(*                                                                         *)
(* The module models converters/dataset_converter.py (aiod_to_orm,         *)
(* orm_to_aiod, _retrieve_related_objects_by_ids), the canonical schema of *)
(* schemas.py (AIoDDataset and its field constraints) and the register and *)
(* replace operations that drive the converter.                            *)
(*                                                                         *)
(* Values.  An optional value (Python `x | None`, or a key that is absent  *)
(* from a request body) is the empty tuple when absent and the one-element *)
(* tuple <<v>> when present.  A row identifier (OrmDataset.id,             *)
(* OrmPublication.id) is an integer; an identifier of the canonical schema *)
(* (has_parts, is_part, citations: Set[str]) is a string.                  *)
(***************************************************************************)
EXTENDS Integers, Sequences, FiniteSets, TLC

VARIABLES
    datasets,       \* persisted OrmDataset rows
    publications,   \* persisted OrmPublication rows (their ids)
    lookup,         \* persisted shared lookup tables, one set of rows per kind
    last,           \* the last request and its response
    txn             \* concurrent conversions: per transaction, its progress

vars == <<datasets, publications, lookup, last, txn>>

(***************************************************************************)
(* Bounds of the model.                                                    *)
(***************************************************************************)
MaxDatasets == 2
MaxPublications == 1

None == <<>>
Some(v) == <<v>>

(***************************************************************************)
(* Identifier conversions.                                                 *)
(***************************************************************************)
Digits == <<"1", "2", "3", "4", "5", "6", "7", "8", "9">>

\* str(i), as pydantic coerces the integers of `[part.id for part in ...]`
\* into the Set[str] fields of AIoDDataset.
IntToStr(i) == Digits[i]

\* The integer a string parameter stands for when the database compares it
\* with an integer primary key (`cls.id.in_(ids)`); absent for a string that
\* is not a number.
DbCoerce(s) ==
    IF \E i \in DOMAIN Digits : Digits[i] = s
    THEN Some(CHOOSE i \in DOMAIN Digits : Digits[i] = s)
    ELSE None

\* Python equality of a str and an int: never equal.
PyEqStrInt(s, i) == FALSE

RECURSIVE SetToSeq(_)
SetToSeq(S) ==
    IF S = {} THEN <<>>
    ELSE LET x == CHOOSE y \in S : TRUE IN <<x>> \o SetToSeq(S \ {x})

Range(seq) == {seq[i] : i \in DOMAIN seq}

(***************************************************************************)
(* The canonical schema (schemas.py).                                      *)
(***************************************************************************)
RequiredFields == <<"description", "name", "node", "node_specific_identifier", "same_as">>

\* Optional string fields of AIoDDataset that carry a length constraint.
ConstrainedOptional == <<"creator", "issn", "spatial_coverage", "version", "license">>

MaxLength(field) ==
    CASE field = "description" -> 5000
      [] field = "name" -> 150
      [] field = "node" -> 30
      [] field = "node_specific_identifier" -> 250
      [] field = "same_as" -> 150
      [] field = "creator" -> 150
      [] field = "issn" -> 8
      [] field = "spatial_coverage" -> 500
      [] field = "version" -> 150
      [] field = "license" -> 150

MinLength(field) == IF field = "issn" THEN 8 ELSE 0

DistributionMaxLength(field) ==
    CASE field = "content_url" -> 150
      [] field = "description" -> 5000
      [] field = "name" -> 150
      [] field = "encoding_format" -> 150

\* The violations of one string field: pydantic reports one error per field.
FieldViolations(raw, field, required) ==
    IF raw[field] = None
    THEN IF required THEN {[loc |-> <<"body", field>>, type |-> "value_error.missing"]}
         ELSE {}
    ELSE IF Len(raw[field][1]) < MinLength(field)
    THEN {[loc |-> <<"body", field>>, type |-> "value_error.any_str.min_length"]}
    ELSE IF Len(raw[field][1]) > MaxLength(field)
    THEN {[loc |-> <<"body", field>>, type |-> "value_error.any_str.max_length"]}
    ELSE {}

DistributionViolations(raw) ==
    LET ds == IF raw.distributions = None THEN <<>> ELSE raw.distributions[1]
        One(i, field, required) ==
            IF ds[i][field] = None
            THEN IF required
                 THEN {[loc |-> <<"body", "distributions", IntToStr(i), field>>,
                        type |-> "value_error.missing"]}
                 ELSE {}
            ELSE IF Len(ds[i][field][1]) > DistributionMaxLength(field)
            THEN {[loc |-> <<"body", "distributions", IntToStr(i), field>>,
                   type |-> "value_error.any_str.max_length"]}
            ELSE {}
    IN UNION {One(i, "content_url", TRUE) \cup One(i, "description", FALSE)
              \cup One(i, "name", FALSE) \cup One(i, "encoding_format", FALSE)
              : i \in DOMAIN ds}

\* Validation of a request body against AIoDDataset: every violated
\* constraint, one entry per field.
ValidateFirstOnly(raw) ==
    LET all == UNION {FieldViolations(raw, RequiredFields[i], TRUE) : i \in DOMAIN RequiredFields}
               \cup UNION {FieldViolations(raw, ConstrainedOptional[i], FALSE)
                           : i \in DOMAIN ConstrainedOptional}
               \cup DistributionViolations(raw)
    IN IF all = {} THEN {} ELSE {CHOOSE v \in all : TRUE}

Validate(raw) ==
    UNION {FieldViolations(raw, RequiredFields[i], TRUE) : i \in DOMAIN RequiredFields}
    \cup UNION {FieldViolations(raw, ConstrainedOptional[i], FALSE) : i \in DOMAIN ConstrainedOptional}
    \cup DistributionViolations(raw)

\* The AIoDDataset pydantic builds from a valid body: required fields as
\* given, optional fields None when absent, collections from their
\* default_factory when absent.
Default(opt, dflt) == IF opt = None THEN dflt ELSE opt[1]

Parse(raw) ==
    [id |-> raw.id,
     description |-> raw.description[1],
     name |-> raw.name[1],
     node |-> raw.node[1],
     node_specific_identifier |-> raw.node_specific_identifier[1],
     same_as |-> raw.same_as[1],
     creator |-> raw.creator,
     date_modified |-> raw.date_modified,
     date_published |-> raw.date_published,
     funder |-> raw.funder,
     is_accessible_for_free |-> raw.is_accessible_for_free,
     issn |-> raw.issn,
     size |-> raw.size,
     spatial_coverage |-> raw.spatial_coverage,
     temporal_coverage_from |-> raw.temporal_coverage_from,
     temporal_coverage_to |-> raw.temporal_coverage_to,
     version |-> raw.version,
     license |-> raw.license,
     has_parts |-> Default(raw.has_parts, {}),
     is_part |-> Default(raw.is_part, {}),
     alternate_names |-> Default(raw.alternate_names, {}),
     citations |-> Default(raw.citations, [shape |-> "set", ids |-> {}]),
     distributions |-> LET ds == Default(raw.distributions, <<>>)
                       IN [i \in DOMAIN ds |-> [ds[i] EXCEPT !.content_url = @[1]]],
     keywords |-> Default(raw.keywords, {}),
     measured_values |-> Default(raw.measured_values, <<>>)]

(***************************************************************************)
(* Shared lookup entities (License, Keyword, AlternateName, MeasuredValue) *)
(* and their get-or-create resolution.                                     *)
(***************************************************************************)
Kinds == {"License", "Keyword", "AlternateName", "MeasuredValue"}

EmptyLookup == [k \in Kinds |-> {}]

\* The row id the database assigns to the next row of a table.
NextRid(rows) == Cardinality(rows) + 1

\* A plain constructor call: a new row whatever the table holds.
CreateRow(lk, kind, key) ==
    LET rid == NextRid(lk[kind])
    IN [lookup |-> [lk EXCEPT ![kind] = @ \cup {[rid |-> rid, key |-> key]}],
        rid |-> rid]

\* cls.as_unique(session, **key): the row of the session that has the key,
\* created when there is none.
AsUnique(lk, kind, key) ==
    LET hit == {r \in lk[kind] : r.key = key}
    IN IF hit # {}
       THEN [lookup |-> lk, rid |-> (CHOOSE r \in hit : TRUE).rid]
       ELSE CreateRow(lk, kind, key)

\* [Cls(**key) for key in keys]: a new row per key.
RECURSIVE CreateEach(_, _, _)
CreateEach(lk, kind, keys) ==
    IF keys = <<>> THEN [lookup |-> lk, rids |-> <<>>]
    ELSE LET one == CreateRow(lk, kind, Head(keys))
             rest == CreateEach(one.lookup, kind, Tail(keys))
         IN [lookup |-> rest.lookup, rids |-> <<one.rid>> \o rest.rids]

\* [Cls.as_unique(session=session, **key) for key in keys]: the calls are made
\* in order, each on the session the previous one left.
RECURSIVE ResolveEach(_, _, _)
ResolveEach(lk, kind, keys) ==
    IF keys = <<>> THEN [lookup |-> lk, rids |-> <<>>]
    ELSE LET one == AsUnique(lk, kind, Head(keys))
             rest == ResolveEach(one.lookup, kind, Tail(keys))
         IN [lookup |-> rest.lookup, rids |-> <<one.rid>> \o rest.rids]

ResolveLicense(lk, license) ==
    IF license # None
    THEN LET r == AsUnique(lk, "License", <<license[1]>>)
         IN [lookup |-> r.lookup, rid |-> Some(r.rid)]
    ELSE [lookup |-> lk, rid |-> None]

ResolveAlternateNames(lk, names) ==
    ResolveEach(lk, "AlternateName", SetToSeq({<<n>> : n \in names}))

CreateKeywords(lk, names) ==
    CreateEach(lk, "Keyword", SetToSeq({<<n>> : n \in names}))

ResolveKeywords(lk, names) ==
    ResolveEach(lk, "Keyword", SetToSeq({<<n>> : n \in names}))

ResolveMeasuredValues(lk, mvs) ==
    ResolveEach(lk, "MeasuredValue",
                [i \in DOMAIN mvs |-> <<mvs[i].variable, mvs[i].technique>>])

(***************************************************************************)
(* _retrieve_related_objects_by_ids(session, ids, cls).  `rows` are the    *)
(* ids of the rows of cls the session sees.                                *)
(***************************************************************************)
NotFoundDetail(prefix, ids) ==
    [prefix |-> prefix, ids |-> ids, suffix |-> "not found in the database."]

RetrievePartial(rows, ids) ==
    [ok |-> TRUE,
     related |-> {i \in rows : \E s \in ids : DbCoerce(s) = Some(i)},
     detail |-> None,
     queries |-> IF Cardinality(ids) > 0 THEN 1 ELSE 0]

\* A retrieval without the `len(ids) > 0` guard: it queries for every input.
RetrieveUnguarded(rows, ids) ==
    LET related_objects == {i \in rows : \E s \in ids : DbCoerce(s) = Some(i)}
    IN IF Cardinality(related_objects) # Cardinality(ids)
       THEN [ok |-> FALSE, related |-> {},
             detail |-> Some(NotFoundDetail("Dataset parts", ids)),
             queries |-> 1]
       ELSE [ok |-> TRUE, related |-> related_objects, detail |-> None, queries |-> 1]

RetrieveRelatedObjectsByIds(rows, ids) ==
    IF Cardinality(ids) > 0
    THEN LET related_objects == {i \in rows : \E s \in ids : DbCoerce(s) = Some(i)}
         IN IF Cardinality(related_objects) # Cardinality(ids)
            THEN LET ids_not_found ==
                         {s \in ids : ~ \E c \in related_objects : PyEqStrInt(s, c)}
                 IN [ok |-> FALSE, related |-> {},
                     detail |-> Some(NotFoundDetail("Dataset parts", ids_not_found)),
                     queries |-> 1]
            ELSE [ok |-> TRUE, related |-> related_objects, detail |-> None, queries |-> 1]
    ELSE [ok |-> TRUE, related |-> {}, detail |-> None, queries |-> 0]

(***************************************************************************)
(* aiod_to_orm(session, aiod).  The session sees the dataset rows `ds`,    *)
(* the publication rows `pubs` and the lookup tables `lk`; the result      *)
(* carries the tables with the rows the conversion added to the session.   *)
(***************************************************************************)
ConvertFailure(lk, r, queries) ==
    [ok |-> FALSE, detail |-> r.detail, orm |-> None, lookup |-> lk, queries |-> queries]

\* A converter that forgets `orm.id = aiod.id`.
AssignNoId(aiod) == None

\* orm.id = aiod.id
AssignId(aiod) == aiod.id

\* A constructor call that drops a field of the distribution.
BuildDistributionsNoFormat(distrs) ==
    [i \in DOMAIN distrs |->
        [content_url |-> distrs[i].content_url,
         content_size_kb |-> distrs[i].content_size_kb,
         description |-> distrs[i].description,
         name |-> distrs[i].name,
         encoding_format |-> None]]

BuildDistributions(distrs) ==
    [i \in DOMAIN distrs |->
        [content_url |-> distrs[i].content_url,
         content_size_kb |-> distrs[i].content_size_kb,
         description |-> distrs[i].description,
         name |-> distrs[i].name,
         encoding_format |-> distrs[i].encoding_format]]

OrmDataset(aiod, id, lic, has_parts, is_part, alts, citations, kws, mvs) ==
    [id |-> id,
     description |-> aiod.description,
     name |-> aiod.name,
     node |-> aiod.node,
     node_specific_identifier |-> aiod.node_specific_identifier,
     same_as |-> aiod.same_as,
     creator |-> aiod.creator,
     date_modified |-> aiod.date_modified,
     date_published |-> aiod.date_published,
     funder |-> aiod.funder,
     is_accessible_for_free |-> aiod.is_accessible_for_free,
     issn |-> aiod.issn,
     size |-> aiod.size,
     spatial_coverage |-> aiod.spatial_coverage,
     temporal_coverage_from |-> aiod.temporal_coverage_from,
     temporal_coverage_to |-> aiod.temporal_coverage_to,
     version |-> aiod.version,
     license |-> lic,
     has_parts |-> has_parts,
     is_part |-> is_part,
     alternate_names |-> alts,
     citations |-> citations,
     distributions |-> BuildDistributions(aiod.distributions),
     keywords |-> kws,
     measured_values |-> mvs]

AiodToOrm(ds, pubs, lk, aiod) ==
    LET citations == IF aiod.citations.shape = "list"
                     THEN [ok |-> TRUE, related |-> {}, detail |-> None, queries |-> 0]
                     ELSE RetrieveRelatedObjectsByIds(pubs, aiod.citations.ids)
    IN IF ~citations.ok THEN ConvertFailure(lk, citations, citations.queries) ELSE
    LET has_parts == RetrieveRelatedObjectsByIds(ds, aiod.has_parts)
        q2 == citations.queries + has_parts.queries
    IN IF ~has_parts.ok THEN ConvertFailure(lk, has_parts, q2) ELSE
    LET is_part == RetrieveRelatedObjectsByIds(ds, aiod.is_part)
        q3 == q2 + is_part.queries
    IN IF ~is_part.ok THEN ConvertFailure(lk, is_part, q3) ELSE
    LET lic == ResolveLicense(lk, aiod.license)
        alts == ResolveAlternateNames(lic.lookup, aiod.alternate_names)
        kws == ResolveKeywords(alts.lookup, aiod.keywords)
        mvs == ResolveMeasuredValues(kws.lookup, aiod.measured_values)
    IN [ok |-> TRUE, detail |-> None,
        orm |-> Some(OrmDataset(aiod, AssignId(aiod), lic.rid, has_parts.related,
                                is_part.related, Range(alts.rids), citations.related,
                                Range(kws.rids), mvs.rids)),
        lookup |-> mvs.lookup,
        queries |-> q3]

(***************************************************************************)
(* orm_to_aiod(orm): pure flattening.  `lk` holds the rows the dataset's   *)
(* relationships point to.                                                 *)
(***************************************************************************)
KeyOf(lk, kind, rid) == (CHOOSE r \in lk[kind] : r.rid = rid).key

OrmToAiod(lk, orm) ==
    [id |-> orm.id,
     description |-> orm.description,
     name |-> orm.name,
     node |-> orm.node,
     node_specific_identifier |-> orm.node_specific_identifier,
     same_as |-> orm.same_as,
     creator |-> orm.creator,
     date_modified |-> orm.date_modified,
     date_published |-> orm.date_published,
     funder |-> orm.funder,
     is_accessible_for_free |-> orm.is_accessible_for_free,
     issn |-> orm.issn,
     size |-> orm.size,
     spatial_coverage |-> orm.spatial_coverage,
     temporal_coverage_from |-> orm.temporal_coverage_from,
     temporal_coverage_to |-> orm.temporal_coverage_to,
     version |-> orm.version,
     license |-> IF orm.license # None THEN Some(KeyOf(lk, "License", orm.license[1])[1])
                 ELSE None,
     has_parts |-> {IntToStr(part) : part \in orm.has_parts},
     is_part |-> {IntToStr(part) : part \in orm.is_part},
     alternate_names |-> {KeyOf(lk, "AlternateName", alias)[1] : alias \in orm.alternate_names},
     citations |-> [shape |-> "set", ids |-> {IntToStr(c) : c \in orm.citations}],
     distributions |-> [i \in DOMAIN orm.distributions |->
                          [content_url |-> orm.distributions[i].content_url,
                           content_size_kb |-> orm.distributions[i].content_size_kb,
                           description |-> orm.distributions[i].description,
                           name |-> orm.distributions[i].name,
                           encoding_format |-> orm.distributions[i].encoding_format]],
     keywords |-> {KeyOf(lk, "Keyword", keyword)[1] : keyword \in orm.keywords},
     measured_values |-> [i \in DOMAIN orm.measured_values |->
                            [variable |-> KeyOf(lk, "MeasuredValue", orm.measured_values[i])[1],
                             technique |-> KeyOf(lk, "MeasuredValue", orm.measured_values[i])[2]]]]

(***************************************************************************)
(* Request bodies.                                                         *)
(***************************************************************************)
Absent ==
    [id |-> None, description |-> None, name |-> None, node |-> None,
     node_specific_identifier |-> None, same_as |-> None, creator |-> None,
     date_modified |-> None, date_published |-> None, funder |-> None,
     is_accessible_for_free |-> None, issn |-> None, size |-> None,
     spatial_coverage |-> None, temporal_coverage_from |-> None,
     temporal_coverage_to |-> None, version |-> None, license |-> None,
     has_parts |-> None, is_part |-> None, alternate_names |-> None,
     citations |-> None, distributions |-> None, keywords |-> None,
     measured_values |-> None]

\* A body with the five required fields, as the tests of PUT /datasets send.
Minimal(name, node) ==
    [Absent EXCEPT !.name = Some(name), !.node = Some(node),
                   !.description = Some("description"),
                   !.node_specific_identifier = Some("1"),
                   !.same_as = Some("url")]

IdSet(ids) == Some([shape |-> "set", ids |-> ids])

\* Citations sent as publication records: no element is a str, so pydantic
\* takes the List[AIoDPublication] member of the union.
Paper == [id |-> None, title |-> Some("paper"), url |-> Some("url/paper")]

Embedded(records) == Some([shape |-> "list", records |-> records])

\* "a" * 200, the name of test_too_long_name.
LongName ==
    "aaaaaaaaaaaaaaaaaaaaaaaaaaaaaaaaaaaaaaaaaaaaaaaaaaaaaaaaaaaaaaaaaaaaaaaaaaaaaaaaaaaaaaaaaaaaaaaaaaaa"
    \o "aaaaaaaaaaaaaaaaaaaaaaaaaaaaaaaaaaaaaaaaaaaaaaaaaaaaaaaaaaaaaaaaaaaaaaaaaaaaaaaaaaaaaaaaaaaaaaaaaaaa"

Technique == [variable |-> Some("temperature"), technique |-> Some("sensor")]

Download ==
    [content_url |-> Some("url/file"), content_size_kb |-> Some(10),
     description |-> None, name |-> Some("file"), encoding_format |-> Some("csv")]

FullBody ==
    [Minimal("dset1", "openml") EXCEPT
        !.creator = Some("creator"), !.date_modified = Some("2023-03-21"),
        !.date_published = Some("2023-03-20"), !.funder = Some("funder"),
        !.is_accessible_for_free = Some(TRUE), !.issn = Some("12345678"),
        !.size = Some(10), !.spatial_coverage = Some("world"),
        !.temporal_coverage_from = Some("2020-01-01"),
        !.temporal_coverage_to = Some("2021-01-01"), !.version = Some("v1"),
        !.license = Some("mit"), !.alternate_names = Some({"alias"}),
        !.citations = IdSet({"1"}), !.distributions = Some(<<Download>>),
        !.keywords = Some({"ml", "ai"}),
        !.measured_values = Some(<<Technique, Technique>>)]

ValidBodies ==
    {FullBody,
     [Minimal("dset2", "openml") EXCEPT !.keywords = Some({"ai", "nlp"}),
                                        !.license = Some("mit"),
                                        !.measured_values = Some(<<Technique>>)],
     Minimal("dset1", "other_node"),
     [Minimal("dset2", "other_node") EXCEPT !.has_parts = Some({"1"}),
                                            !.is_part = Some({"1", "2"}),
                                            !.keywords = Some({"ml"}),
                                            !.license = Some("gpl"),
                                            !.alternate_names = Some({"alias", "other"})],
     [Minimal("dset1", "openml") EXCEPT !.citations = IdSet({"1", "2"}),
                                        !.has_parts = Some({"a"}),
                                        !.keywords = Some({"nlp"})],
     [Minimal("dset1", "other_node") EXCEPT !.citations = Embedded(<<Paper>>)]}

\* The body of test_partial_update, and a body with a name of 200 characters,
\* no node, a short issn and a has_parts that names no row.
InvalidBodies ==
    {[Absent EXCEPT !.name = Some("name")],
     [Minimal(LongName, "node") EXCEPT !.node = None, !.issn = Some("123"),
                                       !.has_parts = Some({"9"})]}

Bodies == ValidBodies \cup InvalidBodies

(***************************************************************************)
(* The store and the operations on it.                                     *)
(***************************************************************************)
DatasetIds == {d.id[1] : d \in datasets}

\* The id the database assigns to the next dataset row.
NextDatasetId == Cardinality(datasets) + 1

\* A request and its response: the status code, the entries of a
\* ValidationError (422), the message of a NotFound (404), the identifier a
\* Conflict (409) names, the converter's result and the record returned.
NoDetail == [prefix |-> "", ids |-> {}, suffix |-> ""]

Response(op, target, body, status, orm, result, queries) ==
    [op |-> op, target |-> target, body |-> body, status |-> status, errors |-> {},
     detail |-> NoDetail, existing |-> 0, orm |-> orm, result |-> result,
     queries |-> queries]

NoRequest == Response("none", 0, Absent, 0, None, None, 0)

Invalid(op, target, body, errors) ==
    [Response(op, target, body, 422, None, None, 0) EXCEPT !.errors = errors]

NotFound(op, target, body, detail, queries) ==
    [Response(op, target, body, 404, None, None, queries) EXCEPT !.detail = detail]

Conflict(op, target, body, existing) ==
    [Response(op, target, body, 409, None, None, 0) EXCEPT !.existing = existing]

NoTxn == [t \in {} |-> 0]

Init ==
    /\ datasets = {}
    /\ publications = {}
    /\ lookup = EmptyLookup
    /\ last = NoRequest
    /\ txn = NoTxn

\* A source yields a publication and it is stored.
IngestPublication ==
    /\ Cardinality(publications) < MaxPublications
    /\ publications' = publications \cup {Cardinality(publications) + 1}
    /\ last' = Response("ingest", Cardinality(publications) + 1, Absent, 200, None, None, 0)
    /\ UNCHANGED <<datasets, lookup, txn>>

\* Register: validation, the (name, node) conflict, the conversion, then the
\* insert of the row and the commit of the session.
RegisterUpsert(body) ==
    LET errors == Validate(body)
        aiod == Parse(body)
        conv == AiodToOrm(DatasetIds, publications, lookup, aiod)
        id == NextDatasetId
        row == [conv.orm[1] EXCEPT !.id = Some(id)]
    IN IF errors # {}
       THEN /\ last' = Invalid("register", 0, body, errors)
            /\ UNCHANGED <<datasets, lookup>>
       ELSE IF ~conv.ok
       THEN /\ last' = NotFound("register", 0, body, conv.detail[1], conv.queries)
            /\ UNCHANGED <<datasets, lookup>>
       ELSE /\ Cardinality(datasets) < MaxDatasets
            /\ datasets' = datasets \cup {row}
            /\ lookup' = conv.lookup
            /\ last' = Response("register", id, body, 200, conv.orm,
                                Some(OrmToAiod(conv.lookup, row)), conv.queries)

RegisterDataset(body) ==
    LET errors == Validate(body)
        aiod == Parse(body)
        existing == {d \in datasets : d.name = aiod.name /\ d.node = aiod.node}
        conv == AiodToOrm(DatasetIds, publications, lookup, aiod)
        id == NextDatasetId
        row == [conv.orm[1] EXCEPT !.id = Some(id)]
    IN IF errors # {}
       THEN /\ last' = Invalid("register", 0, body, errors)
            /\ UNCHANGED <<datasets, lookup>>
       ELSE IF existing # {}
       THEN /\ last' = Conflict("register", 0, body, (CHOOSE d \in existing : TRUE).id[1])
            /\ UNCHANGED <<datasets, lookup>>
       ELSE IF ~conv.ok
       THEN /\ last' = NotFound("register", 0, body, conv.detail[1], conv.queries)
            /\ UNCHANGED <<datasets, lookup>>
       ELSE /\ Cardinality(datasets) < MaxDatasets
            /\ datasets' = datasets \cup {row}
            /\ lookup' = conv.lookup
            /\ last' = Response("register", id, body, 200, conv.orm,
                                Some(OrmToAiod(conv.lookup, row)), conv.queries)

Register ==
    \E body \in Bodies :
        /\ RegisterDataset(body)
        /\ UNCHANGED <<publications, txn>>

\* Replace-by-identifier: validation, the existence of the target, the
\* conversion of the body under the target identifier, then the merge of the
\* row (by its primary key) and the commit of the session.
ReplaceCreateMissing(identifier, body) ==
    LET errors == Validate(body)
        aiod == [Parse(body) EXCEPT !.id = Some(identifier)]
        conv == AiodToOrm(DatasetIds, publications, lookup, aiod)
        orm == conv.orm[1]
        row == IF orm.id = None THEN [orm EXCEPT !.id = Some(NextDatasetId)] ELSE orm
    IN IF errors # {}
       THEN /\ last' = Invalid("replace", identifier, body, errors)
            /\ UNCHANGED <<datasets, lookup>>
       ELSE IF ~conv.ok
       THEN /\ last' = NotFound("replace", identifier, body, conv.detail[1], conv.queries)
            /\ UNCHANGED <<datasets, lookup>>
       ELSE /\ datasets' = {d \in datasets : d.id # row.id} \cup {row}
            /\ lookup' = conv.lookup
            /\ last' = Response("replace", identifier, body, 200, conv.orm,
                                Some(OrmToAiod(conv.lookup, row)), conv.queries)

ReplaceDataset(identifier, body) ==
    LET errors == Validate(body)
        aiod == [Parse(body) EXCEPT !.id = Some(identifier)]
        conv == AiodToOrm(DatasetIds, publications, lookup, aiod)
        orm == conv.orm[1]
        row == IF orm.id = None THEN [orm EXCEPT !.id = Some(NextDatasetId)] ELSE orm
    IN IF errors # {}
       THEN /\ last' = Invalid("replace", identifier, body, errors)
            /\ UNCHANGED <<datasets, lookup>>
       ELSE IF identifier \notin DatasetIds
       THEN /\ last' = NotFound("replace", identifier, body,
                                NotFoundDetail("Dataset", {IntToStr(identifier)}), 0)
            /\ UNCHANGED <<datasets, lookup>>
       ELSE IF ~conv.ok
       THEN /\ last' = NotFound("replace", identifier, body, conv.detail[1], conv.queries)
            /\ UNCHANGED <<datasets, lookup>>
       ELSE /\ datasets' = {d \in datasets : d.id # row.id} \cup {row}
            /\ lookup' = conv.lookup
            /\ last' = Response("replace", identifier, body, 200, conv.orm,
                                Some(OrmToAiod(conv.lookup, row)), conv.queries)

Replace ==
    \E identifier \in DatasetIds \cup {NextDatasetId}, body \in Bodies :
        /\ ReplaceDataset(identifier, body)
        /\ UNCHANGED <<publications, txn>>

Next == IngestPublication \/ Register \/ Replace

Spec == Init /\ [][Next]_vars

(***************************************************************************)
(* Vocabulary of the properties.                                           *)
(***************************************************************************)
IsRequest(r) == r.op \in {"register", "replace"}

Store == <<datasets, publications, lookup>>

StrIds(rows) == {IntToStr(i) : i \in rows}

ScalarFields ==
    {"id", "description", "name", "node", "node_specific_identifier", "same_as",
     "creator", "date_modified", "date_published", "funder", "is_accessible_for_free",
     "issn", "size", "spatial_coverage", "temporal_coverage_from",
     "temporal_coverage_to", "version", "license"}

\* Two canonical records agree on every scalar field and on every collection
\* taken as a set.
SameRecord(a, b) ==
    /\ \A f \in ScalarFields : a[f] = b[f]
    /\ \A f \in {"has_parts", "is_part", "alternate_names", "keywords", "citations"} :
          a[f] = b[f]
    /\ Range(a.distributions) = Range(b.distributions)
    /\ Range(a.measured_values) = Range(b.measured_values)

\* The citations of a canonical record are identifiers (Set[str]), not
\* publication records.
IdentifierCitations(aiod) == aiod.citations.shape = "set"

\* Agreement on everything but the citations.
SameButCitations(a, b) == SameRecord([a EXCEPT !.citations = b.citations], b)

\* The canonical record a request puts into the converter.
Canonical(r) ==
    IF r.op = "replace" THEN [Parse(r.body) EXCEPT !.id = Some(r.target)]
    ELSE Parse(r.body)

\* The relation sets of a canonical record in the order the converter
\* resolves them, each with the kind of entity it refers to.
Relations(aiod, ds, pubs) ==
    (IF aiod.citations.shape = "set"
     THEN <<[kind |-> "Publication", ids |-> aiod.citations.ids, present |-> StrIds(pubs)]>>
     ELSE <<>>)
    \o <<[kind |-> "Dataset", ids |-> aiod.has_parts, present |-> StrIds(ds)],
         [kind |-> "Dataset", ids |-> aiod.is_part, present |-> StrIds(ds)]>>

Unresolvable(aiod, ds, pubs) ==
    SelectSeq(Relations(aiod, ds, pubs), LAMBDA rel : ~(rel.ids \subseteq rel.present))

\* The last response is the NotFound of a relation resolution.
RelationNotFound ==
    /\ IsRequest(last)
    /\ last.status = 404
    /\ ~(last.op = "replace" /\ last.target \notin DatasetIds)

(***************************************************************************)
(* C1.  No two rows of a shared lookup entity have the same natural key,   *)
(* every reference of a dataset resolves to a row of the table, a key      *)
(* mentioned twice in one conversion resolves to one row, and two datasets *)
(* with the keywords {ml, ai} and {ai, nlp} leave exactly 3 Keyword rows   *)
(* and share the "ai" row.                                                 *)
(***************************************************************************)
KeywordNames(d) == {KeyOf(lookup, "Keyword", rid)[1] : rid \in d.keywords}

C1_UniqueNaturalKey ==
    /\ \A k \in Kinds : \A r1, r2 \in lookup[k] : r1.key = r2.key => r1 = r2
    /\ \A d \in datasets :
          /\ d.keywords \subseteq {r.rid : r \in lookup.Keyword}
          /\ d.alternate_names \subseteq {r.rid : r \in lookup.AlternateName}
          /\ Range(d.measured_values) \subseteq {r.rid : r \in lookup.MeasuredValue}
          /\ d.license # None => d.license[1] \in {r.rid : r \in lookup.License}
    /\ (last.status = 200 /\ IsRequest(last)) =>
          LET mvs == Parse(last.body).measured_values
              rids == last.orm[1].measured_values
          IN \A i, j \in DOMAIN mvs : mvs[i] = mvs[j] => rids[i] = rids[j]
    /\ \A a, b \in datasets :
          (KeywordNames(a) = {"ml", "ai"} /\ KeywordNames(b) = {"ai", "nlp"}) =>
              /\ Cardinality(lookup.Keyword) = 3
              /\ Cardinality(a.keywords \cap b.keywords) = 1

C1_Witness ==
    /\ \E a, b \in datasets :
          KeywordNames(a) = {"ml", "ai"} /\ KeywordNames(b) = {"ai", "nlp"}
    /\ \E d \in datasets : Len(d.measured_values) = 2

(***************************************************************************)
(* C3 (as claimed).  A relation resolution that fails lists exactly the    *)
(* identifiers of the set that are missing from the store, and one that    *)
(* succeeds returns exactly the entities whose identifiers are in the set. *)
(***************************************************************************)
C3_ListsExactlyMissing ==
    /\ RelationNotFound =>
          LET failed == Unresolvable(Canonical(last), DatasetIds, publications)[1]
          IN last.detail.ids = failed.ids \ failed.present
    /\ (IsRequest(last) /\ last.status = 200) =>
          /\ StrIds(last.orm[1].has_parts) = Canonical(last).has_parts
          /\ StrIds(last.orm[1].is_part) = Canonical(last).is_part

(***************************************************************************)
(* C4.  A request whose has_parts, is_part or citations name an identifier *)
(* that is missing fails with NotFound, and the step leaves the dataset    *)
(* rows, the publication rows and the lookup tables as they were.          *)
(***************************************************************************)
C4_NotFoundPersistsNothing ==
    [][(/\ IsRequest(last')
        /\ Validate(last'.body) = {}
        /\ last'.status # 409
        /\ last'.op = "replace" => last'.target \in DatasetIds
        /\ Unresolvable(Canonical(last'), DatasetIds, publications) # <<>>)
       => (last'.status = 404 /\ Store' = Store)]_vars

C4_Witness ==
    /\ RelationNotFound
    /\ last.body.license = Some("gpl")
    /\ last.body.keywords # None
    /\ ~ \E r \in lookup.License : r.key = <<"gpl">>

(***************************************************************************)
(* C5.  For a record without has_parts and is_part whose citations are    *)
(* identifiers that exist, orm_to_aiod(aiod_to_orm(record)) equals the     *)
(* record: every scalar field, the license name, and alternate names,      *)
(* keywords, citation identifiers, distributions and measured values as    *)
(* sets.                                                                   *)
(***************************************************************************)
C5_RoundTrip ==
    (/\ IsRequest(last)
     /\ last.status = 200
     /\ IdentifierCitations(Canonical(last))
     /\ Canonical(last).has_parts = {}
     /\ Canonical(last).is_part = {})
    => SameRecord(OrmToAiod(lookup, last.orm[1]), Canonical(last))

C5_Witness ==
    /\ last.op = "register"
    /\ last.status = 200
    /\ last.body = FullBody

(***************************************************************************)
(* C6 (as claimed).  No two dataset rows share the pair (name, node), and  *)
(* a Conflict carries the identifier of the row that has the pair.         *)
(***************************************************************************)
C6_NameNodeUnique ==
    /\ \A a, b \in datasets : (a.name = b.name /\ a.node = b.node) => a = b
    /\ (last.op = "register" /\ last.status = 409) =>
          \E d \in datasets : /\ d.id = Some(last.existing)
                              /\ d.name = Parse(last.body).name
                              /\ d.node = Parse(last.body).node

(***************************************************************************)
(* C6 (amended).  Registration never adds a row whose (name, node) a row   *)
(* already has: it fails with Conflict carrying the identifier of a row    *)
(* with that pair and leaves the store unchanged; a record whose relations *)
(* resolve and whose pair is new is stored under a new identifier.         *)
(***************************************************************************)
C6_RegisterConflict ==
    [][(last'.op = "register" /\ Validate(last'.body) = {}) =>
          LET aiod == Parse(last'.body)
              same == {d \in datasets : d.name = aiod.name /\ d.node = aiod.node}
          IN IF same # {}
             THEN /\ last'.status = 409
                  /\ Some(last'.existing) \in {d.id : d \in same}
                  /\ Store' = Store
             ELSE IF Unresolvable(aiod, DatasetIds, publications) = <<>>
             THEN /\ last'.status = 200
                  /\ last'.target \notin DatasetIds
                  /\ \E d \in datasets' :
                        /\ d.id = Some(last'.target)
                        /\ d.name = aiod.name /\ d.node = aiod.node
                        /\ datasets' = datasets \cup {d}
             ELSE last'.status = 404]_vars

C6_Witness ==
    /\ last.op = "register"
    /\ last.status = 409
    /\ Cardinality(datasets) = 2

C8_ReplaceMissing ==
    [][(/\ last'.op = "replace"
        /\ Validate(last'.body) = {}
        /\ last'.target \notin DatasetIds)
       => (/\ last'.status = 404
           /\ last'.detail = [prefix |-> "Dataset", ids |-> {IntToStr(last'.target)},
                              suffix |-> "not found in the database."]
           /\ Store' = Store)]_vars

C8_Witness ==
    /\ last.op = "replace"
    /\ last.status = 404
    /\ last.target \notin DatasetIds
    /\ datasets # {}

(***************************************************************************)
(* C9.  A body that violates a constraint of the canonical schema fails    *)
(* with ValidationError listing one entry per violated field, before any   *)
(* lookup and before the existence check of the target, and the step       *)
(* leaves the store unchanged.                                             *)
(***************************************************************************)
\* The constraints of the schema on the top-level string fields.
Limit(field) ==
    CASE field = "name" -> 150
      [] field = "description" -> 5000
      [] field = "node" -> 30
      [] field = "node_specific_identifier" -> 250
      [] field = "same_as" -> 150
      [] field = "issn" -> 8

Violated(body) ==
    {f \in {"name", "description", "node", "node_specific_identifier", "same_as"} :
        body[f] = None \/ Len(body[f][1]) > Limit(f)}
    \cup {f \in {"issn"} : body[f] # None /\ Len(body[f][1]) # Limit(f)}

C9_ValidationFirst ==
    [][(IsRequest(last') /\ Violated(last'.body) # {}) =>
          /\ last'.status = 422
          /\ {e.loc[2] : e \in last'.errors} = Violated(last'.body)
          /\ Cardinality(last'.errors) = Cardinality(Violated(last'.body))
          /\ last'.queries = 0
          /\ Store' = Store]_vars

C9_Witness ==
    /\ last.op = "replace"
    /\ last.status = 422
    /\ last.target \notin DatasetIds
    /\ Cardinality(last.errors) = 3
    /\ last.body.has_parts # None

(***************************************************************************)
(* C10 (as claimed).  The NotFound of a relation resolution names the kind *)
(* of entity that was looked up: Publication for citations, Dataset for    *)
(* has_parts and is_part.                                                  *)
(***************************************************************************)
C10_NamesEntityKind ==
    RelationNotFound =>
        /\ last.detail.prefix =
              Unresolvable(Canonical(last), DatasetIds, publications)[1].kind
        /\ last.detail.suffix = "not found in the database."

(***************************************************************************)
(* C11 (as claimed).  A request whose citations are publication records    *)
(* never succeeds with a dataset row whose citations are empty: the        *)
(* conversion of such a record ends in an InternalInconsistency, a server  *)
(* error, not in a stored row.                                             *)
(***************************************************************************)
EmbedsPublications(r) ==
    /\ IsRequest(r)
    /\ Validate(r.body) = {}
    /\ ~IdentifierCitations(Canonical(r))
    /\ Len(Canonical(r).citations.records) > 0

C11_EmbeddedNotDropped ==
    EmbedsPublications(last) =>
        /\ ~(last.status = 200 /\ last.orm[1].citations = {})
        /\ last.status \in {404, 409, 500}

(***************************************************************************)
(* C12.  Resolving an empty identifier set against the Dataset rows or the *)
(* Publication rows of any reachable store makes no lookup, does not fail  *)
(* and returns the empty collection; resolving a non-empty set makes       *)
(* exactly one lookup, found or not.  A request that reaches the           *)
(* conversion therefore makes one lookup per non-empty relation set it     *)
(* resolves, up to and including the first that fails.                     *)
(***************************************************************************)
Identifiers == {"1", "2", "3", "a"}

\* The lookups of the conversion of a request: the non-empty relation sets
\* up to the first unresolvable one.
Lookups(rels) ==
    LET failing == {i \in DOMAIN rels : ~(rels[i].ids \subseteq rels[i].present)}
        stop == IF failing = {} THEN Len(rels)
                ELSE CHOOSE i \in failing : \A j \in failing : i <= j
    IN Cardinality({i \in 1..stop : rels[i].ids # {}})

C12_EmptyResolvesWithoutLookup ==
    /\ \A rows \in {DatasetIds, publications} :
          /\ RetrieveRelatedObjectsByIds(rows, {}) =
                [ok |-> TRUE, related |-> {}, detail |-> None, queries |-> 0]
          /\ \A ids \in (SUBSET Identifiers) \ {{}} :
                RetrieveRelatedObjectsByIds(rows, ids).queries = 1
    /\ (IsRequest(last) /\ (last.status = 200 \/ RelationNotFound)) =>
          last.queries = Lookups(Relations(Canonical(last), DatasetIds, publications))

C12_Witness ==
    /\ last.op = "replace"
    /\ last.status = 200
    /\ Cardinality(datasets) = 2
    /\ publications # {}
    /\ Canonical(last).has_parts = {}
    /\ Canonical(last).is_part = {}
    /\ Canonical(last).citations = [shape |-> "set", ids |-> {"1"}]
    /\ last.queries = 1

(***************************************************************************)
(* Concurrent conversions.  Every transaction converts one record: it      *)
(* resolves the relations, then makes the get-or-create calls of           *)
(* aiod_to_orm one at a time, and commits the dataset row.  The resolver   *)
(* of a transaction looks a key up, creates the row when it saw none, and  *)
(* on a uniqueness conflict at the persistence boundary looks the row up   *)
(* again.  Steps of different transactions interleave.                     *)
(***************************************************************************)
Txns == {1, 2}

\* The resolutions of aiod_to_orm in the order of its keyword arguments, when
\* the keywords are built with the constructor instead of as_unique.
ResolutionCallsNewKeywords(aiod) ==
    (IF aiod.license # None
     THEN <<[fn |-> "as_unique", kind |-> "License", key |-> <<aiod.license[1]>>]>>
     ELSE <<>>)
    \o [i \in 1..Cardinality(aiod.alternate_names) |->
          [fn |-> "as_unique", kind |-> "AlternateName",
           key |-> SetToSeq({<<n>> : n \in aiod.alternate_names})[i]]]
    \o [i \in 1..Cardinality(aiod.keywords) |->
          [fn |-> "new", kind |-> "Keyword",
           key |-> SetToSeq({<<n>> : n \in aiod.keywords})[i]]]
    \o [i \in DOMAIN aiod.measured_values |->
          [fn |-> "as_unique", kind |-> "MeasuredValue",
           key |-> <<aiod.measured_values[i].variable, aiod.measured_values[i].technique>>]]

\* The resolutions of aiod_to_orm in the order of its keyword arguments:
\* license, alternate_names, keywords, measured_values.
ResolutionCalls(aiod) ==
    (IF aiod.license # None
     THEN <<[fn |-> "as_unique", kind |-> "License", key |-> <<aiod.license[1]>>]>>
     ELSE <<>>)
    \o [i \in 1..Cardinality(aiod.alternate_names) |->
          [fn |-> "as_unique", kind |-> "AlternateName",
           key |-> SetToSeq({<<n>> : n \in aiod.alternate_names})[i]]]
    \o [i \in 1..Cardinality(aiod.keywords) |->
          [fn |-> "as_unique", kind |-> "Keyword",
           key |-> SetToSeq({<<n>> : n \in aiod.keywords})[i]]]
    \o [i \in DOMAIN aiod.measured_values |->
          [fn |-> "as_unique", kind |-> "MeasuredValue",
           key |-> <<aiod.measured_values[i].variable, aiod.measured_values[i].technique>>]]

IdleTxn ==
    [pc |-> "idle", body |-> Absent, calls |-> <<>>, resolved |-> <<>>,
     citations |-> {}, has_parts |-> {}, is_part |-> {}, fallbacks |-> 0,
     error |-> ""]

RaceBodies == {b \in ValidBodies : b.name # Some("dset1") \/ b = FullBody}

InitRace ==
    /\ datasets = {}
    /\ publications = 1..MaxPublications
    /\ lookup = EmptyLookup
    /\ last = NoRequest
    /\ txn = [t \in Txns |-> IdleTxn]

\* The rows a transaction resolved, by kind, in the order of the calls.
ResolvedRids(resolved, kind) ==
    LET of == SelectSeq(resolved, LAMBDA r : r.kind = kind)
    IN [i \in DOMAIN of |-> of[i].rid]

Resolved(t, call, rid) ==
    [txn EXCEPT ![t].resolved = Append(@, [kind |-> call.kind, key |-> call.key, rid |-> rid]),
                ![t].calls = Tail(@),
                ![t].pc = "lookup"]

\* The conversion starts: the relations are resolved against the committed
\* rows, and a missing identifier ends the conversion with NotFound.
TxBegin(t) ==
    \E body \in RaceBodies :
        LET aiod == Parse(body)
            citations == IF aiod.citations.shape = "list"
                         THEN [ok |-> TRUE, related |-> {}, detail |-> None, queries |-> 0]
                         ELSE RetrieveRelatedObjectsByIds(publications, aiod.citations.ids)
            has_parts == RetrieveRelatedObjectsByIds(DatasetIds, aiod.has_parts)
            is_part == RetrieveRelatedObjectsByIds(DatasetIds, aiod.is_part)
        IN /\ txn[t].pc = "idle"
           /\ txn' = [txn EXCEPT ![t] =
                  IF citations.ok /\ has_parts.ok /\ is_part.ok
                  THEN [IdleTxn EXCEPT !.pc = "lookup", !.body = body,
                                       !.calls = ResolutionCalls(aiod),
                                       !.citations = citations.related,
                                       !.has_parts = has_parts.related,
                                       !.is_part = is_part.related]
                  ELSE [IdleTxn EXCEPT !.pc = "failed", !.body = body,
                                       !.error = "NotFound"]]
           /\ UNCHANGED <<datasets, publications, lookup, last>>

\* The resolver looks the key up in the table, which holds the rows this
\* transaction created.  A constructor call does not look anything up.
TxLookup(t) ==
    /\ txn[t].pc = "lookup"
    /\ txn[t].calls # <<>>
    /\ LET call == Head(txn[t].calls)
           hit == {r \in lookup[call.kind] : r.key = call.key}
       IN txn' = IF call.fn = "as_unique" /\ hit # {}
                 THEN Resolved(t, call, (CHOOSE r \in hit : TRUE).rid)
                 ELSE [txn EXCEPT ![t].pc = "create"]
    /\ UNCHANGED <<datasets, publications, lookup, last>>

\* The insert of the row at the persistence boundary: the uniqueness
\* constraint refuses a key the table holds by now.  The resolver then falls
\* back to the lookup; a constructor call has no fallback and the error ends
\* the conversion.
TxCreate(t) ==
    /\ txn[t].pc = "create"
    /\ LET call == Head(txn[t].calls)
           conflict == \E r \in lookup[call.kind] : r.key = call.key
           made == CreateRow(lookup, call.kind, call.key)
       IN IF conflict
          THEN /\ txn' = [txn EXCEPT ![t].pc =
                              IF call.fn = "as_unique" THEN "fallback" ELSE "failed",
                                     ![t].error =
                              IF call.fn = "as_unique" THEN @ ELSE "IntegrityError"]
               /\ UNCHANGED lookup
          ELSE /\ lookup' = made.lookup
               /\ txn' = Resolved(t, call, made.rid)
    /\ UNCHANGED <<datasets, publications, last>>

\* The loser of a create-create race looks up the row that exists by now.
TxFallback(t) ==
    /\ txn[t].pc = "fallback"
    /\ LET call == Head(txn[t].calls)
           hit == {r \in lookup[call.kind] : r.key = call.key}
       IN txn' = [Resolved(t, call, (CHOOSE r \in hit : TRUE).rid)
                     EXCEPT ![t].fallbacks = @ + 1]
    /\ UNCHANGED <<datasets, publications, lookup, last>>

\* Every call is resolved: the dataset row is built and committed.
TxCommit(t) ==
    /\ txn[t].pc = "lookup"
    /\ txn[t].calls = <<>>
    /\ LET aiod == Parse(txn[t].body)
           rids(kind) == ResolvedRids(txn[t].resolved, kind)
           lic == IF aiod.license # None THEN Some(rids("License")[1]) ELSE None
           orm == OrmDataset(aiod, AssignId(aiod), lic, txn[t].has_parts, txn[t].is_part,
                             Range(rids("AlternateName")), txn[t].citations,
                             Range(rids("Keyword")), rids("MeasuredValue"))
       IN datasets' = datasets \cup {[orm EXCEPT !.id = Some(NextDatasetId)]}
    /\ txn' = [txn EXCEPT ![t].pc = "done"]
    /\ UNCHANGED <<publications, lookup, last>>

NextRace ==
    \E t \in Txns : TxBegin(t) \/ TxLookup(t) \/ TxCreate(t) \/ TxFallback(t) \/ TxCommit(t)

SpecRace == InitRace /\ [][NextRace]_vars

(***************************************************************************)
(* C2.  With two conversions interleaved, every natural key has at most    *)
(* one row once both conversions have ended, no conversion ends with the   *)
(* error of a uniqueness conflict, and the rows of the committed datasets  *)
(* refer to the one row of each key they name.                             *)
(***************************************************************************)
Finished(t) == txn[t].pc \in {"done", "failed"}

C2_RaceLeavesOneRow ==
    /\ (\A t \in Txns : Finished(t)) =>
          \A k \in Kinds : \A r1, r2 \in lookup[k] : r1.key = r2.key => r1 = r2
    /\ \A t \in Txns : txn[t].error # "IntegrityError"
    /\ \A t \in Txns : txn[t].pc = "done" =>
          \A i \in DOMAIN txn[t].resolved :
              LET r == txn[t].resolved[i]
              IN [rid |-> r.rid, key |-> r.key] \in lookup[r.kind]
    /\ \A d \in datasets :
          Cardinality(d.keywords) =
              Cardinality({KeyOf(lookup, "Keyword", rid) : rid \in d.keywords})

C2_Witness ==
    /\ \A t \in Txns : txn[t].pc = "done"
    /\ \E t \in Txns : txn[t].fallbacks > 0
    /\ \E a, b \in datasets : a # b /\ a.keywords \cap b.keywords # {}

====
